---------------------------- MODULE Spec2Model ----------------------------
(***************************************************************************)
(* Dreamlink (src/src/main.ts): the grid state engine of a single-player   *)
(* merge game played over a geographic grid.  The module models the        *)
(* session state (player position, held spirit, the sparse override map    *)
(* cellMemory, the active movement controller), the durable slot written   *)
(* by saveGame and read by loadGame, the victory timers, and one action    *)
(* per event handler of main.ts.                                           *)
(*                                                                         *)
(* Coordinates.  The source works in degrees with CELL_SIZE_DEG = 0.0001.  *)
(* The model measures latitude and longitude in quarters of a cell, so     *)
(* CELL_SIZE_DEG is 4 units, a cell center (i + 0.5) * CELL_SIZE_DEG is    *)
(* 4i + 2, and Math.floor(x / CELL_SIZE_DEG) is x \div 4 (TLA+ \div        *)
(* rounds toward minus infinity, as Math.floor does).                      *)
(*                                                                         *)
(* null.  A value of type number | null is a sequence of length at most    *)
(* one: Null is << >> and the number n is << n >>.                         *)
(***************************************************************************)
EXTENDS Integers, Sequences, FiniteSets, TLC

VARIABLES
    playerPos,          \* let playerPos: [lat, lng]
    heldSpirit,         \* gridState.heldSpirit: number | null
    cellMemory,         \* Map<string, CellMemento>: key -> [value]
    movementController, \* the active controller: [kind, callback, started]
    storage,            \* localStorage[SAVE_KEY]: absent or the saved record
    feedback,           \* feedbackPanel.textContent (the kind of message)
    winOverlay,         \* winOverlay: [display, html]
    dragging,           \* map.dragging enabled
    victoryTimers,      \* pending setTimeout pairs of triggerVictory, oldest first
    startPosPending,    \* a getCurrentPosition request has not answered yet
    listeners,          \* live keydown listeners and position watches, per kind
    quotaExceeded,      \* localStorage.setItem throws QuotaExceededError
    navigation          \* a location.reload() has been called and the page still runs

vars == << playerPos, heldSpirit, cellMemory, movementController, storage,
           feedback, winOverlay, dragging, victoryTimers, startPosPending,
           listeners, quotaExceeded, navigation >>

-----------------------------------------------------------------------------
(* number | null *)

Null == << >>

Some(n) == << n >>

\* JavaScript truthiness of a number | null: null and 0 are falsy.
Truthy(h) == h # Null /\ h[1] # 0

-----------------------------------------------------------------------------
(* Constants & Config *)

\* 0.0001 degrees, in model units of a quarter cell.
CELL_SIZE_DEG == 4

INTERACTION_RADIUS_CELLS == 3

VICTORY_VALUE == 32

\* Milliseconds.
WIN_MESSAGE_TIME == 2500

\* A reset delay of half the time the win message stays.
RESET_DELAY_SHORT == WIN_MESSAGE_TIME \div 2

RESET_DELAY == 5000

\* L.latLng(36.997936938057016, -122.05703507501151) in quarter cells:
\* cell (369979, -1220571), a little inside it on both axes.
WORLD_ORIGIN == [lat |-> 1479917, lng |-> -4882281]

-----------------------------------------------------------------------------
(* Bounds of the model *)

\* The player roams at most this many cells north and east of the origin cell.
MaxNorth == 1

MaxEast == 1

\* The grid cells whose rectangles the player activates, as offsets from the
\* origin cell: a cell that draws a 4 and leaves the interaction box when the
\* player moves north, an empty cell that leaves it when the player moves
\* east, a cell that draws a 4 and stays inside it, and a cell that is never
\* inside it.
ClickOffsets == { <<-2, 0>>, <<0, -2>>, <<1, 2>>, <<-3, -3>> }

-----------------------------------------------------------------------------
(* Utility functions *)

Abs(x) == IF x < 0 THEN -x ELSE x

latToCellIndex(lat) == lat \div CELL_SIZE_DEG

lngToCellIndex(lng) == lng \div CELL_SIZE_DEG

\* cellKey that keeps the row only, so that the cells of a row share a key.
cellKeyRowOnly(i, j) == <<i, 0>>

\* `${i},${j}`: one key per index pair.
cellKey(i, j) == <<i, j>>

getCellLatLng(i, j) ==
    [south |-> i * CELL_SIZE_DEG, west |-> j * CELL_SIZE_DEG,
     north |-> i * CELL_SIZE_DEG + CELL_SIZE_DEG,
     east |-> j * CELL_SIZE_DEG + CELL_SIZE_DEG]

getCellCenter(i, j) ==
    [lat |-> getCellLatLng(i, j).south + (CELL_SIZE_DEG \div 2),
     lng |-> getCellLatLng(i, j).west + (CELL_SIZE_DEG \div 2)]

\* centerPlayerOnGrid that returns the position as it was given.
centerPlayerOnGridNoSnap(lat, lng) == [lat |-> lat, lng |-> lng]

centerPlayerOnGrid(lat, lng) ==
    LET i == lat \div CELL_SIZE_DEG
        j == lng \div CELL_SIZE_DEG
    IN  \* (i + 0.5) * CELL_SIZE_DEG
        [lat |-> i * CELL_SIZE_DEG + (CELL_SIZE_DEG \div 2),
         lng |-> j * CELL_SIZE_DEG + (CELL_SIZE_DEG \div 2)]

OriginI == latToCellIndex(WORLD_ORIGIN.lat)

OriginJ == lngToCellIndex(WORLD_ORIGIN.lng)

Cells == { <<OriginI + o[1], OriginJ + o[2]>> : o \in ClickOffsets }

\* luck(`${i},${j},spirit`) as a percentage 0..99: a fixed, deterministic
\* draw per cell.  Around the origin ten cells draw a 4, one draws a 2, one
\* draws a 1, and every other cell is empty.
luck(i, j) ==
    LET o == <<i - OriginI, j - OriginJ>>
    IN  IF o \in { <<0, 0>>, <<0, 1>>, <<1, 0>>, <<1, 1>>, <<2, 0>>, <<2, 1>>,
                   <<2, 2>>, <<-2, 0>>, <<1, 2>>, <<-3, -3>> } THEN 3
        ELSE IF o = <<3, 0>> THEN 10
        ELSE IF o = <<3, 1>> THEN 17
        ELSE 50

getSpiritValue(i, j) ==
    LET r == luck(i, j)
    IN  IF r < 20 THEN (IF r < 7 THEN 4 ELSE IF r < 14 THEN 2 ELSE 1)
        ELSE 0

(* Map<string, CellMemento> *)

EmptyMap == << >>

MapHas(m, key) == key \in DOMAIN m

MapSet(m, key, memento) ==
    [k \in (DOMAIN m) \cup {key} |-> IF k = key THEN memento ELSE m[k]]

\* getSpiritAt that takes a cell without an override to be empty.
getSpiritAtMissingIsEmpty(m, i, j) ==
    LET key == cellKey(i, j)
    IN  IF MapHas(m, key) THEN m[key].value ELSE 0

\* getSpiritAt that consults an override only when it empties the cell, so
\* that a dropped spirit does not show.
getSpiritAtDroppedInvisible(m, i, j) ==
    LET key == cellKey(i, j)
    IN  IF MapHas(m, key) /\ m[key].value = 0 THEN 0 ELSE getSpiritValue(i, j)

getSpiritAt(m, i, j) ==
    LET key == cellKey(i, j)
    IN  IF MapHas(m, key) THEN m[key].value ELSE getSpiritValue(i, j)

\* isCellNearPlayer that measures the straight-line distance to the corner.
isCellNearPlayerEuclidean(pos, i, j) ==
    LET cellLat == i * CELL_SIZE_DEG
        cellLng == j * CELL_SIZE_DEG
        distLat == Abs(cellLat - pos.lat)
        distLng == Abs(cellLng - pos.lng)
        radius == INTERACTION_RADIUS_CELLS * CELL_SIZE_DEG
    IN  distLat * distLat + distLng * distLng <= radius * radius

isCellNearPlayer(pos, i, j) ==
    LET cellLat == i * CELL_SIZE_DEG
        cellLng == j * CELL_SIZE_DEG
        distLat == Abs(cellLat - pos.lat)
        distLng == Abs(cellLng - pos.lng)
    IN  /\ distLat <= INTERACTION_RADIUS_CELLS * CELL_SIZE_DEG
        /\ distLng <= INTERACTION_RADIUS_CELLS * CELL_SIZE_DEG

-----------------------------------------------------------------------------
(* Movement controllers *)

\* new ButtonMovementController() / new GeoMovementController(): no callback,
\* no keydown listener, no position watch.  `listening` says that the
\* controller's own handleKey is registered, or that the watch whose id it
\* holds is active.
ButtonMovementController == [kind |-> "button", callback |-> FALSE, listening |-> FALSE]

GeoMovementController == [kind |-> "geo", callback |-> FALSE, listening |-> FALSE]

\* The keydown listeners of the document and the position watches of
\* navigator.geolocation, counted per kind of the controller that owns them.
\* A controller that has been replaced is referenced by nothing but its own
\* registration, so the registrations of one kind are interchangeable.
NoListeners == [button |-> 0, geo |-> 0]

onMove(c) == [c EXCEPT !.callback = TRUE]

\* start(): addEventListener("keydown", handleKey), which registers the same
\* function once however often it is added, or watchPosition(...), which
\* opens a new watch on every call.  navigator.geolocation exists in every
\* running session: the script calls navigator.geolocation.getCurrentPosition
\* unguarded before anything else.
start(c, ls) ==
    [controller |-> [c EXCEPT !.listening = TRUE],
     listeners |-> IF c.kind = "button" /\ c.listening THEN ls
                   ELSE [ls EXCEPT ![c.kind] = @ + 1]]

\* stop that leaves the position watch of a geolocation controller running.
stopLeavesWatch(c, ls) ==
    [controller |-> [c EXCEPT !.listening = FALSE],
     listeners |-> IF c.listening /\ c.kind = "button"
                   THEN [ls EXCEPT ![c.kind] = @ - 1] ELSE ls]

\* stop(): removeEventListener("keydown", handleKey), which does nothing when
\* handleKey is not registered, or clearWatch(watchId) when watchId is set,
\* which does nothing when that watch has been cleared before.
stop(c, ls) ==
    [controller |-> [c EXCEPT !.listening = FALSE],
     listeners |-> IF c.listening THEN [ls EXCEPT ![c.kind] = @ - 1] ELSE ls]

\* setMovementController that starts the new controller without stopping the
\* current one.
setMovementControllerNoStop(current, ls, newController) ==
    start(onMove(newController), ls)

\* setMovementController(newController): the current controller is stopped
\* and dropped; the new one gets the callback and is started.
setMovementController(current, ls, newController) ==
    LET stopped == stop(current, ls)
    IN  start(onMove(newController), stopped.listeners)

-----------------------------------------------------------------------------
(* Game persistence *)

KeyLess(a, b) == a[1] < b[1] \/ (a[1] = b[1] /\ a[2] < b[2])

\* Array.from(cellMemory.entries()): the [key, memento] pairs of the map as
\* an array, one pair per key (listed here in key order).
RECURSIVE EntriesOf(_, _)
EntriesOf(m, keys) ==
    IF keys = {} THEN << >>
    ELSE LET k == CHOOSE x \in keys : \A y \in keys : x = y \/ KeyLess(x, y)
         IN  << <<k, m[k]>> >> \o EntriesOf(m, keys \ {k})

MapEntries(m) == EntriesOf(m, DOMAIN m)

\* cellMemory.clear(); for (const [key, memento] of entries) cellMemory.set(key, memento)
RECURSIVE MapLoad(_, _)
MapLoad(m, entries) ==
    IF entries = << >> THEN m
    ELSE MapLoad(MapSet(m, Head(entries)[1], Head(entries)[2]), Tail(entries))

\* saveGame that saves only the cells holding a spirit.
saveGameSkipsEmptied(pos, held, mem, controller) ==
    LET kept == [k \in { x \in DOMAIN mem : mem[x].value # 0 } |-> mem[k]]
    IN  Some([player |-> [lat |-> pos.lat, lng |-> pos.lng],
              heldSpirit |-> held,
              cellMemory |-> MapEntries(kept),
              movementMode |-> IF controller.kind = "geo" THEN "geo" ELSE "button"])

\* The string saveGame hands to localStorage.setItem, modelled by the object
\* it encodes.  JSON.stringify followed by JSON.parse returns an equal object
\* for numbers, null, strings, arrays and plain objects, which is all the
\* record holds.
saveGame(pos, held, mem, controller) ==
    Some([player |-> [lat |-> pos.lat, lng |-> pos.lng],
          heldSpirit |-> held,
          cellMemory |-> MapEntries(mem),
          movementMode |-> IF controller.kind = "geo" THEN "geo" ELSE "button"])

\* localStorage.setItem(SAVE_KEY, value), the last statement of saveGame: the
\* slot takes the value, or the call throws and the slot keeps what it held.
setItem(value) == storage' = IF quotaExceeded THEN storage ELSE value

\* A stored string that JSON.parse rejects.
NotJson == [text |-> "{"]

\* loadGame() on the session as the script has built it so far (pos, held,
\* mem, controller, ls): the result and the session state it leaves.  The
\* statements of the try block run in order until one throws: JSON.parse on a
\* string that is not JSON, data.player.lat on a record without player, the
\* for-of loop on a record without cellMemory.
loadGame(raw, pos, held, mem, controller, ls) ==
    LET asBefore == [loaded |-> FALSE, playerPos |-> pos, heldSpirit |-> held,
                     cellMemory |-> mem, movementController |-> controller,
                     listeners |-> ls]
    IN  IF raw = Null THEN asBefore
        ELSE LET data == raw[1]
             IN  IF "text" \in DOMAIN data THEN asBefore
                 ELSE IF "player" \notin DOMAIN data THEN asBefore
                 ELSE IF "cellMemory" \notin DOMAIN data
                 THEN [asBefore EXCEPT
                          !.playerPos = [lat |-> data.player.lat, lng |-> data.player.lng],
                          !.heldSpirit = data.heldSpirit,
                          !.cellMemory = EmptyMap]
                 ELSE LET mode == IF data.movementMode = "geo"
                                  THEN setMovementController(controller, ls,
                                                             GeoMovementController)
                                  ELSE setMovementController(controller, ls,
                                                             ButtonMovementController)
                      IN  [loaded |-> TRUE,
                           playerPos |-> [lat |-> data.player.lat, lng |-> data.player.lng],
                           heldSpirit |-> data.heldSpirit,
                           cellMemory |-> MapLoad(EmptyMap, data.cellMemory),
                           movementController |-> mode.controller,
                           listeners |-> mode.listeners]

\* The whole script of main.ts, run on a page load with `raw` in the slot:
\* the state declarations, movementController.onMove/start, loadGame, and the
\* fallback to the centered WORLD_ORIGIN when nothing was loaded.
Startup(raw) ==
    LET first == start(onMove(ButtonMovementController), NoListeners)
        L == loadGame(raw, WORLD_ORIGIN, Null, EmptyMap, first.controller,
                      first.listeners)
    IN  [playerPos |-> IF L.loaded THEN L.playerPos
                       ELSE centerPlayerOnGrid(WORLD_ORIGIN.lat, WORLD_ORIGIN.lng),
         heldSpirit |-> L.heldSpirit,
         cellMemory |-> L.cellMemory,
         movementController |-> L.movementController,
         listeners |-> L.listeners]

-----------------------------------------------------------------------------
(* Inputs of the model *)

\* The cells the player position ranges over.
PlayerRows == OriginI .. (OriginI + MaxNorth)

PlayerCols == OriginJ .. (OriginJ + MaxEast)

InRange(pos) ==
    /\ latToCellIndex(pos.lat) \in PlayerRows
    /\ lngToCellIndex(pos.lng) \in PlayerCols

\* Raw positions a geolocation fix can report: for every cell in range, its
\* south-west corner and an interior point off the center, given as offsets
\* from the corner.
SubCellPoints == { <<0, 0>>, <<CELL_SIZE_DEG - 1, 1>> }

RawPositions ==
    { [lat |-> i * CELL_SIZE_DEG + q[1], lng |-> j * CELL_SIZE_DEG + q[2]] :
          i \in PlayerRows, j \in PlayerCols, q \in SubCellPoints }

\* Keys of a keydown event: the four movement keys, one of them with shift or
\* caps lock on, and a key the handler does not know.
Keys == { "w", "a", "s", "d", "D", "x" }

\* toLowerCase that leaves every key as it was typed.
toLowerCaseIdentity(k) == k

toLowerCase(k) ==
    CASE k = "W" -> "w" [] k = "A" -> "a" [] k = "S" -> "s" [] k = "D" -> "d"
      [] OTHER -> k

-----------------------------------------------------------------------------
(* Initial states: the script has run on a page load, either on a first    *)
(* visit with nothing saved, or on the record an earlier session saved.    *)

\* The record saved by an earlier session at the origin cell, in which the
\* player turned eight 4s into two 16s: pickup at (0,0), merge at (-2,0);
\* pickup at (0,1), merge at (1,0); pickup at (1,0), merge at (-2,0); pickup
\* at (1,1), drop at the empty (0,-2); pickup at (2,0), merge at (0,-2);
\* pickup at (2,1), merge at (2,2); pickup at (2,2), merge at (0,-2).
EarlierSession ==
    LET at(o) == cellKey(OriginI + o[1], OriginJ + o[2])
        emptied == { <<0, 0>>, <<0, 1>>, <<1, 0>>, <<1, 1>>, <<2, 0>>, <<2, 1>>,
                     <<2, 2>> }
        mem == [k \in { at(o) : o \in emptied \cup { <<-2, 0>>, <<0, -2>> } } |->
                   IF k \in { at(o) : o \in emptied }
                   THEN [value |-> 0] ELSE [value |-> 16]]
    IN  saveGame(centerPlayerOnGrid(WORLD_ORIGIN.lat, WORLD_ORIGIN.lng), Null,
                 mem, ButtonMovementController)

SavedSessions == { Null, EarlierSession }

Init ==
    \E raw \in SavedSessions :
        /\ playerPos = Startup(raw).playerPos
        /\ heldSpirit = Startup(raw).heldSpirit
        /\ cellMemory = Startup(raw).cellMemory
        /\ movementController = Startup(raw).movementController
        /\ storage = raw
        /\ feedback = ""
        /\ winOverlay = [display |-> "none", html |-> ""]
        /\ dragging = TRUE
        /\ victoryTimers = << >>
        /\ startPosPending = TRUE
        /\ listeners = Startup(raw).listeners
        /\ quotaExceeded = FALSE
        /\ navigation = "none"

-----------------------------------------------------------------------------
(* Movement *)

\* handleMoveEvent that forgets the emptied cells when the grid is redrawn.
handleMoveEventForgetsEmptied(lat, lng) ==
    /\ playerPos' = centerPlayerOnGrid(lat, lng)
    /\ feedback' = "Moved to"
    /\ cellMemory' = [k \in { x \in DOMAIN cellMemory : cellMemory[x].value # 0 } |->
                         cellMemory[k]]
    /\ setItem(saveGame(playerPos', heldSpirit, cellMemory', movementController))
    /\ UNCHANGED << heldSpirit, movementController, winOverlay,
                    dragging, victoryTimers, startPosPending, listeners,
                    quotaExceeded, navigation >>

\* handleMoveEvent(lat, lng): snap, report, redraw, save.
handleMoveEvent(lat, lng) ==
    /\ playerPos' = centerPlayerOnGrid(lat, lng)
    /\ feedback' = "Moved to"
    /\ setItem(saveGame(playerPos', heldSpirit, cellMemory, movementController))
    /\ UNCHANGED << heldSpirit, cellMemory, movementController, winOverlay,
                    dragging, victoryTimers, startPosPending, listeners,
                    quotaExceeded, navigation >>

\* ButtonMovementController.handleKey on a keydown of k with the player at
\* pos: the positions it hands to the callback, none or one.
handleKey(k, pos, callback) ==
    LET key == toLowerCase(k)
        dy == IF key = "w" THEN CELL_SIZE_DEG
              ELSE IF key = "s" THEN -CELL_SIZE_DEG ELSE 0
        dx == IF key = "a" THEN -CELL_SIZE_DEG
              ELSE IF key = "d" THEN CELL_SIZE_DEG ELSE 0
    IN  IF ~callback THEN << >>
        ELSE IF dx # 0 \/ dy # 0
        THEN << [lat |-> pos.lat + dy, lng |-> pos.lng + dx] >>
        ELSE << >>

\* A keydown event, reached through the registered keydown listeners: every
\* registered handleKey runs on the event, each one stepping from the
\* position the one before it left.
KeyDown(k) ==
    /\ listeners.button > 0
    /\ LET emitted == handleKey(k, playerPos, movementController.callback)
       IN  IF emitted = << >> THEN UNCHANGED vars
           ELSE LET newLat == playerPos.lat
                                + listeners.button * (emitted[1].lat - playerPos.lat)
                    newLng == playerPos.lng
                                + listeners.button * (emitted[1].lng - playerPos.lng)
                IN  /\ InRange([lat |-> newLat, lng |-> newLng])
                    /\ handleMoveEvent(newLat, newLng)

\* The watchPosition success callback of GeoMovementController.start on a
\* fix (rawLat, rawLng) with the player at pos: the positions it hands to
\* the callback, none or one.
watchPositionSuccess(rawLat, rawLng, pos, callback) ==
    LET gridPos == centerPlayerOnGrid(rawLat, rawLng)
    IN  IF ~callback THEN << >>
        ELSE IF gridPos.lat # pos.lat \/ gridPos.lng # pos.lng
        THEN << [lat |-> gridPos.lat, lng |-> gridPos.lng] >>
        ELSE << >>

\* A position fix, reached through the active watches (a second watch finds
\* the player on the fix's cell already and reports nothing).
GeoWatchUpdate(rawLat, rawLng) ==
    /\ listeners.geo > 0
    /\ LET emitted == watchPositionSuccess(rawLat, rawLng, playerPos,
                                           movementController.callback)
       IN  IF emitted = << >> THEN UNCHANGED vars
           ELSE handleMoveEvent(emitted[1].lat, emitted[1].lng)

\* movementToggle click handler.
ToggleMovement ==
    /\ LET switched == IF movementController.kind = "button"
                       THEN setMovementController(movementController, listeners,
                                                  GeoMovementController)
                       ELSE setMovementController(movementController, listeners,
                                                  ButtonMovementController)
       IN  /\ movementController' = switched.controller
           /\ listeners' = switched.listeners
    /\ feedback' = IF movementController.kind = "button"
                   THEN "Switched to GEO movement"
                   ELSE "Switched to BUTTON movement"
    /\ UNCHANGED << playerPos, heldSpirit, cellMemory, storage, winOverlay,
                    dragging, victoryTimers, startPosPending, quotaExceeded, navigation >>

\* The getCurrentPosition success callback issued at the top of the script.
StartPosArrives(lat, lng) ==
    /\ startPosPending
    /\ startPosPending' = FALSE
    /\ playerPos' = centerPlayerOnGrid(lat, lng)
    /\ UNCHANGED << heldSpirit, cellMemory, movementController, storage,
                    feedback, winOverlay, dragging, victoryTimers, listeners,
                    quotaExceeded, navigation >>

\* The getCurrentPosition error callback: a warning, WORLD_ORIGIN stays.
StartPosError ==
    /\ startPosPending
    /\ startPosPending' = FALSE
    /\ UNCHANGED << playerPos, heldSpirit, cellMemory, movementController,
                    storage, feedback, winOverlay, dragging, victoryTimers,
                    listeners, quotaExceeded, navigation >>

-----------------------------------------------------------------------------
(* Victory logic *)

\* triggerVictory(): show the overlay, disable map dragging, schedule the
\* message change (WIN_MESSAGE_TIME) and the reset (RESET_DELAY).  A pending
\* pair is "message" while both timers are pending, "reset" once only the
\* reset is, and "late message" once only the message change is.  Timers set
\* at the same moment run in the order of their delays, and in the order
\* they were set when the delays are equal.
triggerVictory ==
    /\ winOverlay' = [display |-> "block", html |-> "You Restored the Dream!"]
    /\ dragging' = FALSE
    /\ victoryTimers' = Append(victoryTimers, "message")

\* resetGame that leaves the hand as it is.
resetGameKeepsHeld ==
    /\ heldSpirit' = heldSpirit
    /\ winOverlay' = [winOverlay EXCEPT !.display = "none"]
    /\ dragging' = TRUE
    /\ cellMemory' = EmptyMap

\* resetGame()
resetGame ==
    /\ heldSpirit' = Null
    /\ winOverlay' = [winOverlay EXCEPT !.display = "none"]
    /\ dragging' = TRUE
    /\ cellMemory' = EmptyMap

\* The WIN_MESSAGE_TIME timer of the oldest trigger whose message is pending.
MessageTimerFires ==
    /\ \E k \in 1 .. Len(victoryTimers) :
          /\ victoryTimers[k] \in { "message", "late message" }
          /\ \A n \in 1 .. (k - 1) : victoryTimers[n] \notin { "message", "late message" }
          /\ IF victoryTimers[k] = "message"
             THEN /\ WIN_MESSAGE_TIME <= RESET_DELAY
                  /\ victoryTimers' = [victoryTimers EXCEPT ![k] = "reset"]
             ELSE victoryTimers' = [n \in 1 .. (Len(victoryTimers) - 1) |->
                                       IF n < k THEN victoryTimers[n]
                                       ELSE victoryTimers[n + 1]]
    /\ winOverlay' = [winOverlay EXCEPT !.html = "A new dream begins..."]
    /\ UNCHANGED << playerPos, heldSpirit, cellMemory, movementController,
                    storage, feedback, dragging, startPosPending, listeners,
                    quotaExceeded, navigation >>

\* The RESET_DELAY timer of the oldest trigger.  Its message timer, set at
\* the same moment, has run before it unless its delay is the longer one.
ResetTimerFires ==
    /\ victoryTimers # << >>
    /\ IF Head(victoryTimers) = "reset"
       THEN victoryTimers' = Tail(victoryTimers)
       ELSE /\ Head(victoryTimers) = "message"
            /\ RESET_DELAY < WIN_MESSAGE_TIME
            /\ victoryTimers' = << "late message" >> \o Tail(victoryTimers)
    /\ resetGame
    /\ UNCHANGED << playerPos, movementController, storage, feedback,
                    startPosPending, listeners,
                    quotaExceeded, navigation >>

-----------------------------------------------------------------------------
(* Gameplay actions *)

\* performPickup without the override: the hand is filled and the cell is
\* left to its procedural value.
performPickupNoOverride(i, j, value) ==
    /\ heldSpirit' = Some(value)
    /\ cellMemory' = cellMemory
    /\ feedback' = "Picked up a spirit"
    /\ setItem(saveGame(playerPos, heldSpirit', cellMemory', movementController))
    /\ UNCHANGED << playerPos, movementController, winOverlay, dragging,
                    victoryTimers, startPosPending, listeners,
                    quotaExceeded, navigation >>

\* performPickup that saves before it fills the hand, so that a throwing
\* write leaves the cell emptied and the hand empty.
performPickupSavesEarly(i, j, value) ==
    /\ cellMemory' = MapSet(cellMemory, cellKey(i, j), [value |-> 0])
    /\ IF quotaExceeded
       THEN UNCHANGED << heldSpirit, feedback, storage >>
       ELSE /\ heldSpirit' = Some(value)
            /\ feedback' = "Picked up a spirit"
            /\ setItem(saveGame(playerPos, heldSpirit', cellMemory', movementController))
    /\ UNCHANGED << playerPos, movementController, winOverlay, dragging,
                    victoryTimers, startPosPending, listeners,
                    quotaExceeded, navigation >>

performPickup(i, j, value) ==
    /\ heldSpirit' = Some(value)
    /\ cellMemory' = MapSet(cellMemory, cellKey(i, j), [value |-> 0])
    /\ feedback' = "Picked up a spirit"
    /\ setItem(saveGame(playerPos, heldSpirit', cellMemory', movementController))
    /\ UNCHANGED << playerPos, movementController, winOverlay, dragging,
                    victoryTimers, startPosPending, listeners,
                    quotaExceeded, navigation >>

\* performMerge that forgets to empty the hand.
performMergeKeepsHeld(i, j, value) ==
    LET newValue == value * 2
    IN  /\ cellMemory' = MapSet(cellMemory, cellKey(i, j), [value |-> newValue])
        /\ heldSpirit' = heldSpirit
        /\ feedback' = "Spirits merged!"
        /\ IF newValue >= VICTORY_VALUE THEN triggerVictory
           ELSE UNCHANGED << winOverlay, dragging, victoryTimers >>
        /\ setItem(saveGame(playerPos, heldSpirit', cellMemory', movementController))
        /\ UNCHANGED << playerPos, movementController, startPosPending, listeners,
                        quotaExceeded, navigation >>

\* performMerge that compares the doubled value with > instead of >=.
performMergeStrictThreshold(i, j, value) ==
    LET newValue == value * 2
    IN  /\ cellMemory' = MapSet(cellMemory, cellKey(i, j), [value |-> newValue])
        /\ heldSpirit' = Null
        /\ feedback' = "Spirits merged!"
        /\ IF newValue > VICTORY_VALUE THEN triggerVictory
           ELSE UNCHANGED << winOverlay, dragging, victoryTimers >>
        /\ setItem(saveGame(playerPos, heldSpirit', cellMemory', movementController))
        /\ UNCHANGED << playerPos, movementController, startPosPending, listeners,
                        quotaExceeded, navigation >>

\* performMerge that writes three times the value instead of twice.
performMergeTriples(i, j, value) ==
    LET newValue == value * 3
    IN  /\ cellMemory' = MapSet(cellMemory, cellKey(i, j), [value |-> newValue])
        /\ heldSpirit' = Null
        /\ feedback' = "Spirits merged!"
        /\ IF newValue >= VICTORY_VALUE THEN triggerVictory
           ELSE UNCHANGED << winOverlay, dragging, victoryTimers >>
        /\ setItem(saveGame(playerPos, heldSpirit', cellMemory', movementController))
        /\ UNCHANGED << playerPos, movementController, startPosPending, listeners,
                        quotaExceeded, navigation >>

performMerge(i, j, value) ==
    LET newValue == value * 2
    IN  /\ cellMemory' = MapSet(cellMemory, cellKey(i, j), [value |-> newValue])
        /\ heldSpirit' = Null
        /\ feedback' = "Spirits merged!"
        /\ IF newValue >= VICTORY_VALUE THEN triggerVictory
           ELSE UNCHANGED << winOverlay, dragging, victoryTimers >>
        /\ setItem(saveGame(playerPos, heldSpirit', cellMemory', movementController))
        /\ UNCHANGED << playerPos, movementController, startPosPending, listeners,
                        quotaExceeded, navigation >>

\* performDrop that empties the hand before reading it, so the cell gets 0.
performDropClearsFirst(i, j) ==
    LET value == 0
    IN  /\ cellMemory' = MapSet(cellMemory, cellKey(i, j), [value |-> value])
        /\ feedback' = "You placed a spirit"
        /\ heldSpirit' = Null
        /\ setItem(saveGame(playerPos, heldSpirit', cellMemory', movementController))
        /\ UNCHANGED << playerPos, movementController, winOverlay, dragging,
                        victoryTimers, startPosPending, listeners,
                        quotaExceeded, navigation >>

\* performDrop that leaves the spirit in the hand as well.
performDropKeepsHeld(i, j) ==
    LET value == heldSpirit[1]
    IN  /\ cellMemory' = MapSet(cellMemory, cellKey(i, j), [value |-> value])
        /\ feedback' = "You placed a spirit"
        /\ heldSpirit' = heldSpirit
        /\ setItem(saveGame(playerPos, heldSpirit', cellMemory', movementController))
        /\ UNCHANGED << playerPos, movementController, winOverlay, dragging,
                        victoryTimers, startPosPending, listeners,
                        quotaExceeded, navigation >>

performDrop(i, j) ==
    LET value == heldSpirit[1]
    IN  /\ cellMemory' = MapSet(cellMemory, cellKey(i, j), [value |-> value])
        /\ feedback' = "You placed a spirit"
        /\ heldSpirit' = Null
        /\ setItem(saveGame(playerPos, heldSpirit', cellMemory', movementController))
        /\ UNCHANGED << playerPos, movementController, winOverlay, dragging,
                        victoryTimers, startPosPending, listeners,
                        quotaExceeded, navigation >>

\* showFeedback(message), the whole effect of a rejected activation.
showFeedback(message) ==
    /\ feedback' = message
    /\ UNCHANGED << playerPos, heldSpirit, cellMemory, movementController,
                    storage, winOverlay, dragging, victoryTimers,
                    startPosPending, listeners,
                    quotaExceeded, navigation >>

-----------------------------------------------------------------------------
(* Cell interaction *)

\* handleCellClick that consults the cell value before the distance test.
handleCellClickValueFirst(i, j) ==
    LET currentValue == getSpiritAt(cellMemory, i, j)
        held == heldSpirit
    IN  IF currentValue > 0 /\ held = Null
        THEN performPickup(i, j, currentValue)
        ELSE IF ~isCellNearPlayer(playerPos, i, j)
        THEN showFeedback("That fragment is too far away.")
        ELSE IF currentValue > 0 /\ held = Some(currentValue)
        THEN performMerge(i, j, currentValue)
        ELSE IF Truthy(held) /\ currentValue = 0
        THEN performDrop(i, j)
        ELSE IF held = Null /\ currentValue = 0
        THEN showFeedback("Empty dream fragment.")
        ELSE showFeedback("The spirits resist merging.")

\* handleCellClick that lets a full hand take a second spirit on top.
handleCellClickStacking(i, j) ==
    IF ~isCellNearPlayer(playerPos, i, j)
    THEN showFeedback("That fragment is too far away.")
    ELSE LET currentValue == getSpiritAt(cellMemory, i, j)
             held == heldSpirit
         IN  IF currentValue > 0 /\ held = Null
             THEN performPickup(i, j, currentValue)
             ELSE IF currentValue > 0 /\ held = Some(currentValue)
             THEN performMerge(i, j, currentValue)
             ELSE IF Truthy(held) /\ currentValue = 0
             THEN performDrop(i, j)
             ELSE IF held = Null /\ currentValue = 0
             THEN showFeedback("Empty dream fragment.")
             ELSE performPickup(i, j, currentValue + held[1])

\* handleCellClick whose drop test forgets that the cell must be empty.
handleCellClickDropsAnywhere(i, j) ==
    IF ~isCellNearPlayer(playerPos, i, j)
    THEN showFeedback("That fragment is too far away.")
    ELSE LET currentValue == getSpiritAt(cellMemory, i, j)
             held == heldSpirit
         IN  IF currentValue > 0 /\ held = Null
             THEN performPickup(i, j, currentValue)
             ELSE IF currentValue > 0 /\ held = Some(currentValue)
             THEN performMerge(i, j, currentValue)
             ELSE IF Truthy(held)
             THEN performDrop(i, j)
             ELSE IF held = Null /\ currentValue = 0
             THEN showFeedback("Empty dream fragment.")
             ELSE showFeedback("The spirits resist merging.")

\* The merge test taken to pass on an empty hand as well.
MergeGuardIgnoresEmptyHand(currentValue, held) ==
    currentValue > 0 /\ (held = Null \/ held = Some(currentValue))

\* currentValue > 0 && held === null
PickupGuard(currentValue, held) == currentValue > 0 /\ held = Null

\* currentValue > 0 && held === currentValue
MergeGuard(currentValue, held) == currentValue > 0 /\ held = Some(currentValue)

\* handleCellClick with the merge test ahead of the pickup test.
handleCellClickMergeFirst(i, j) ==
    IF ~isCellNearPlayer(playerPos, i, j)
    THEN showFeedback("That fragment is too far away.")
    ELSE LET currentValue == getSpiritAt(cellMemory, i, j)
             held == heldSpirit
         IN  IF MergeGuard(currentValue, held)
             THEN performMerge(i, j, currentValue)
             ELSE IF PickupGuard(currentValue, held)
             THEN performPickup(i, j, currentValue)
             ELSE IF Truthy(held) /\ currentValue = 0
             THEN performDrop(i, j)
             ELSE IF held = Null /\ currentValue = 0
             THEN showFeedback("Empty dream fragment.")
             ELSE showFeedback("The spirits resist merging.")

handleCellClick(i, j) ==
    IF ~isCellNearPlayer(playerPos, i, j)
    THEN showFeedback("That fragment is too far away.")
    ELSE LET currentValue == getSpiritAt(cellMemory, i, j)
             held == heldSpirit
         IN  IF PickupGuard(currentValue, held)
             THEN performPickup(i, j, currentValue)
             ELSE IF MergeGuard(currentValue, held)
             THEN performMerge(i, j, currentValue)
             ELSE IF Truthy(held) /\ currentValue = 0
             THEN performDrop(i, j)
             ELSE IF held = Null /\ currentValue = 0
             THEN showFeedback("Empty dream fragment.")
             ELSE showFeedback("The spirits resist merging.")

\* A click on the rectangle drawCells drew for cell c.
CellClick(c) == handleCellClick(c[1], c[2])

-----------------------------------------------------------------------------
(* Page loads *)

\* The page is loaded again: timers, listeners and the session state of the
\* old page are gone and the script runs from the top on the saved record.
LoadPage(raw) ==
    /\ playerPos' = Startup(raw).playerPos
    /\ heldSpirit' = Startup(raw).heldSpirit
    /\ cellMemory' = Startup(raw).cellMemory
    /\ movementController' = Startup(raw).movementController
    /\ listeners' = Startup(raw).listeners
    /\ feedback' = ""
    /\ winOverlay' = [display |-> "none", html |-> ""]
    /\ dragging' = TRUE
    /\ victoryTimers' = << >>
    /\ startPosPending' = TRUE
    /\ navigation' = "none"

\* The player closes or reloads the page and comes back.
Reload ==
    /\ LoadPage(storage)
    /\ UNCHANGED << storage, quotaExceeded >>

\* newGameButton click handler: localStorage.removeItem(SAVE_KEY);
\* location.reload(), with the reloaded document taking the page over before
\* any other event is handled.
NewGame ==
    /\ storage' = Null
    /\ LoadPage(storage')
    /\ UNCHANGED quotaExceeded

\* The same handler, up to its return.  location.reload() starts a
\* navigation and returns; the page, its listeners and its timers keep
\* running until the reloaded document is ready.  The pending navigation is
\* tagged with whether a victory sequence was pending at the click.
NewGameRequest ==
    /\ storage' = Null
    /\ navigation' = IF victoryTimers # << >> THEN "reload during victory"
                     ELSE "reload"
    /\ UNCHANGED << playerPos, heldSpirit, cellMemory, movementController,
                    feedback, winOverlay, dragging, victoryTimers,
                    startPosPending, listeners, quotaExceeded >>

\* The reloaded document takes the page over: the script runs from the top
\* on what the slot holds by then.
PageCommit ==
    /\ navigation # "none"
    /\ LoadPage(storage)
    /\ UNCHANGED << storage, quotaExceeded >>

-----------------------------------------------------------------------------

Next ==
    \/ \E c \in Cells : CellClick(c)
    \/ \E k \in Keys : KeyDown(k)
    \/ \E p \in RawPositions : GeoWatchUpdate(p.lat, p.lng)
    \/ ToggleMovement
    \/ \E p \in RawPositions : StartPosArrives(p.lat, p.lng)
    \/ StartPosError
    \/ MessageTimerFires
    \/ ResetTimerFires
    \/ Reload
    \/ NewGame

Spec == Init /\ [][Next]_vars

-----------------------------------------------------------------------------
(* Faults of the durable slot.  Under Spec the slot holds what saveGame    *)
(* wrote and every write succeeds.  SpecCorrupt runs the same program on a *)
(* slot that may hold a record the program did not write; SpecQuota runs   *)
(* it on an origin whose storage is full, so that every setItem throws.    *)

\* Records found in the slot that saveGame did not write: a string that is
\* not JSON, a record without player, a record without cellMemory whose
\* player is one cell north-east of the origin cell, and a complete record
\* whose heldSpirit is 0.
CorruptSessions ==
    LET there == getCellCenter(OriginI + 1, OriginJ + 1)
    IN  { Some(NotJson),
          Some([heldSpirit |-> Some(8), cellMemory |-> << >>,
                movementMode |-> "geo"]),
          Some([player |-> there, heldSpirit |-> Some(8), movementMode |-> "geo"]),
          Some([player |-> there, heldSpirit |-> Some(0), cellMemory |-> << >>,
                movementMode |-> "button"]) }

\* The state the script leaves on a page load with `raw` in the slot.
Loaded(raw) ==
    /\ playerPos = Startup(raw).playerPos
    /\ heldSpirit = Startup(raw).heldSpirit
    /\ cellMemory = Startup(raw).cellMemory
    /\ movementController = Startup(raw).movementController
    /\ listeners = Startup(raw).listeners
    /\ storage = raw
    /\ feedback = ""
    /\ winOverlay = [display |-> "none", html |-> ""]
    /\ dragging = TRUE
    /\ victoryTimers = << >>
    /\ startPosPending = TRUE
    /\ navigation = "none"

InitCorrupt ==
    /\ \E raw \in SavedSessions \cup CorruptSessions : Loaded(raw)
    /\ quotaExceeded = FALSE

SpecCorrupt == InitCorrupt /\ [][Next]_vars

InitQuota ==
    /\ \E raw \in SavedSessions : Loaded(raw)
    /\ quotaExceeded = TRUE

SpecQuota == InitQuota /\ [][Next]_vars

-----------------------------------------------------------------------------
(* The reload window.  Under Spec a reload requested by the page replaces  *)
(* it at once.  SpecUnload runs the same program with the events that the  *)
(* old page still handles between location.reload() and its replacement.   *)

NextUnload ==
    \/ \E c \in Cells : CellClick(c)
    \/ \E k \in Keys : KeyDown(k)
    \/ \E p \in RawPositions : GeoWatchUpdate(p.lat, p.lng)
    \/ ToggleMovement
    \/ \E p \in RawPositions : StartPosArrives(p.lat, p.lng)
    \/ StartPosError
    \/ MessageTimerFires
    \/ ResetTimerFires
    \/ NewGameRequest
    \/ PageCommit
    \/ Reload

SpecUnload == Init /\ [][NextUnload]_vars

-----------------------------------------------------------------------------
(* Properties of the interaction state machine *)

KeyOf(c) == cellKey(c[1], c[2])

ValueAt(m, c) == getSpiritAt(m, c[1], c[2])

Near(c) == isCellNearPlayer(playerPos, c[1], c[2])

\* C1: activating a cell outside the interaction box reports "too far" and
\* leaves heldSpirit, every override and the persisted record as they were,
\* whatever is held and whatever the cell holds.
C1_TooFarChangesNothing ==
    [][\A c \in Cells :
          (CellClick(c) /\ ~Near(c)) =>
              /\ feedback' = "That fragment is too far away."
              /\ heldSpirit' = heldSpirit
              /\ cellMemory' = cellMemory
              /\ storage' = storage]_vars

\* A too-far rejection has happened while a spirit was held and a cell
\* holding a spirit was out of reach.
C1_Witness ==
    /\ feedback = "That fragment is too far away."
    /\ heldSpirit # Null
    /\ \E c \in Cells : ~Near(c) /\ ValueAt(cellMemory, c) > 0 /\ MapHas(cellMemory, KeyOf(c))

\* C2: activating a near cell of value v > 0 empty-handed leaves
\* heldSpirit = v and the cell at 0 through an explicit override 0.
C2_Pickup ==
    [][\A c \in Cells :
          LET v == ValueAt(cellMemory, c)
          IN  (CellClick(c) /\ Near(c) /\ v > 0 /\ heldSpirit = Null) =>
                  /\ heldSpirit' = Some(v)
                  /\ ValueAt(cellMemory', c) = 0
                  /\ MapHas(cellMemory', KeyOf(c))
                  /\ cellMemory'[KeyOf(c)] = [value |-> 0]]_vars

\* A pickup has just happened at a cell whose procedural value is positive.
C2_Witness ==
    /\ feedback = "Picked up a spirit"
    /\ heldSpirit # Null
    /\ \E c \in Cells :
          /\ getSpiritValue(c[1], c[2]) > 0
          /\ MapHas(cellMemory, KeyOf(c))
          /\ cellMemory[KeyOf(c)].value = 0

\* C3: activating a near cell of value v > 0 while holding v leaves the cell
\* at exactly 2v and the hand empty.
C3_Merge ==
    [][\A c \in Cells :
          LET v == ValueAt(cellMemory, c)
          IN  (CellClick(c) /\ Near(c) /\ v > 0 /\ heldSpirit = Some(v)) =>
                  /\ ValueAt(cellMemory', c) = 2 * v
                  /\ heldSpirit' = Null]_vars

\* A merge has just produced an 8 out of two 4s.
C3_Witness ==
    /\ feedback = "Spirits merged!"
    /\ heldSpirit = Null
    /\ \E c \in Cells : Near(c) /\ ValueAt(cellMemory, c) = 8

\* C4: activating a near cell of value 0 while holding h leaves the cell at h
\* and the hand empty.
C4_Drop ==
    [][\A c \in Cells :
          (CellClick(c) /\ Near(c) /\ ValueAt(cellMemory, c) = 0 /\ heldSpirit # Null) =>
              /\ Some(ValueAt(cellMemory', c)) = heldSpirit
              /\ heldSpirit' = Null]_vars

\* A drop has just placed a spirit on a cell that is empty by its draw.
C4_Witness ==
    /\ feedback = "You placed a spirit"
    /\ heldSpirit = Null
    /\ \E c \in Cells :
          /\ getSpiritValue(c[1], c[2]) = 0
          /\ ValueAt(cellMemory, c) > 0

\* C5: the two rejections on a near cell (empty cell with an empty hand, and
\* a held value different from the cell's positive value) leave heldSpirit,
\* the override map with its key set, and the persisted record unchanged.
C5_RejectionsChangeNothing ==
    [][\A c \in Cells :
          LET v == ValueAt(cellMemory, c)
          IN  ( /\ CellClick(c)
                /\ Near(c)
                /\ \/ v = 0 /\ heldSpirit = Null
                   \/ v > 0 /\ heldSpirit # Null /\ heldSpirit # Some(v) ) =>
                  /\ heldSpirit' = heldSpirit
                  /\ cellMemory' = cellMemory
                  /\ DOMAIN cellMemory' = DOMAIN cellMemory
                  /\ storage' = storage]_vars

\* A mismatch rejection has just happened: the hand holds a value and a near
\* cell holds a different positive one.
C5_Witness ==
    /\ feedback = "The spirits resist merging."
    /\ heldSpirit # Null
    /\ \E c \in Cells :
          /\ Near(c)
          /\ ValueAt(cellMemory, c) > 0
          /\ heldSpirit # Some(ValueAt(cellMemory, c))

\* A step of a movement source: a key press handled by the button controller
\* or a fix handled by the geolocation controller.
MoveStep ==
    \/ \E k \in Keys : KeyDown(k)
    \/ \E p \in RawPositions : GeoWatchUpdate(p.lat, p.lng)

\* C6: heldSpirit is always null or one positive integer; an activation fills
\* the hand only when it is empty, and then with the value of the activated
\* cell, and a move event never changes it.
C6_AtMostOneHeld ==
    /\ [](heldSpirit = Null \/ (Len(heldSpirit) = 1 /\ heldSpirit[1] \in Nat \ {0}))
    /\ [][/\ \A c \in Cells :
                CellClick(c) =>
                    \/ heldSpirit' = heldSpirit
                    \/ heldSpirit' = Null
                    \/ heldSpirit = Null /\ heldSpirit' = Some(ValueAt(cellMemory, c))
          /\ MoveStep => heldSpirit' = heldSpirit]_vars

\* The hand holds a 16 while two more spirits lie within reach.
C6_Witness ==
    /\ heldSpirit = Some(16)
    /\ \E c, d \in Cells :
          /\ c # d
          /\ Near(c) /\ ValueAt(cellMemory, c) > 0
          /\ Near(d) /\ ValueAt(cellMemory, d) > 0

\* C7 as stated: a cell resolves to its procedural value exactly when no set
\* has targeted it (a key is in the map only through a set).
C7_FlyweightIff ==
    \A c \in Cells :
        (ValueAt(cellMemory, c) = getSpiritValue(c[1], c[2])) <=> ~MapHas(cellMemory, KeyOf(c))

\* C7 amended: a cell without an override resolves to its procedural value,
\* and a cell that resolves to anything else has an override; a cell with an
\* override resolves to the value last set, which may be its procedural value.
C7_UntouchedIsProcedural ==
    \A c \in Cells :
        /\ ~MapHas(cellMemory, KeyOf(c)) => ValueAt(cellMemory, c) = getSpiritValue(c[1], c[2])
        /\ MapHas(cellMemory, KeyOf(c)) => ValueAt(cellMemory, c) = cellMemory[KeyOf(c)].value

\* One cell has been picked up and given its spirit back, another has never
\* been targeted, and a third has been emptied.
C7_Witness ==
    \E c, d, e \in Cells :
        /\ MapHas(cellMemory, KeyOf(c))
        /\ ValueAt(cellMemory, c) = getSpiritValue(c[1], c[2])
        /\ ValueAt(cellMemory, c) > 0
        /\ ~MapHas(cellMemory, KeyOf(d))
        /\ Near(d)
        /\ MapHas(cellMemory, KeyOf(e))
        /\ ValueAt(cellMemory, e) # getSpiritValue(e[1], e[2])

\* C8: a move event leaves every override, the key set, every cell's value
\* and heldSpirit as they were, so an emptied cell stays at 0.
C8_MovesKeepOverrides ==
    [][MoveStep =>
          /\ cellMemory' = cellMemory
          /\ heldSpirit' = heldSpirit
          /\ \A c \in Cells :
                (MapHas(cellMemory, KeyOf(c)) /\ ValueAt(cellMemory, c) = 0) =>
                    ValueAt(cellMemory', c) = 0]_vars

\* After a pickup the player has moved, holds the spirit, and the emptied
\* cell, whose draw is positive, is within reach and still at 0.
C8_Witness ==
    /\ feedback = "Moved to"
    /\ heldSpirit # Null
    /\ \E c \in Cells :
          /\ Near(c)
          /\ getSpiritValue(c[1], c[2]) > 0
          /\ ValueAt(cellMemory, c) = 0

\* C9: loading the record saveGame writes in the current state gives back
\* the current position, heldSpirit, override map and movement mode.
C9_RoundTrip ==
    LET S == Startup(saveGame(playerPos, heldSpirit, cellMemory, movementController))
    IN  /\ S.playerPos = playerPos
        /\ S.heldSpirit = heldSpirit
        /\ DOMAIN S.cellMemory = DOMAIN cellMemory
        /\ S.cellMemory = cellMemory
        /\ S.movementController.kind = movementController.kind

\* A page load has just restored a session saved away from the origin in geo
\* mode, with a spirit in hand and emptied cells on record.
C9_Witness ==
    /\ feedback = ""
    /\ storage # Null
    /\ heldSpirit # Null
    /\ movementController.kind = "geo"
    /\ playerPos # centerPlayerOnGrid(WORLD_ORIGIN.lat, WORLD_ORIGIN.lng)
    /\ \E c \in Cells : MapHas(cellMemory, KeyOf(c)) /\ ValueAt(cellMemory, c) = 0
    /\ \E c \in Cells : MapHas(cellMemory, KeyOf(c)) /\ ValueAt(cellMemory, c) > 0

\* C10: a step schedules a victory sequence exactly when it is a merge whose
\* doubled value reaches VICTORY_VALUE, and then schedules exactly one.
C10_VictoryIffWinningMerge ==
    [][/\ (victoryTimers' = Append(victoryTimers, "message")) <=>
              \E c \in Cells :
                  LET v == ValueAt(cellMemory, c)
                  IN  /\ CellClick(c)
                      /\ Near(c)
                      /\ v > 0
                      /\ heldSpirit = Some(v)
                      /\ 2 * v >= VICTORY_VALUE
       /\ Len(victoryTimers') <= Len(victoryTimers) + 1]_vars

\* A merge has just produced a 32 and its victory sequence is pending.
C10_Witness ==
    /\ feedback = "Spirits merged!"
    /\ victoryTimers = << "message" >>
    /\ winOverlay.display = "block"
    /\ \E c \in Cells : ValueAt(cellMemory, c) = VICTORY_VALUE

-----------------------------------------------------------------------------
(* Properties of the victory sequence *)

\* Some victory sequence has been triggered and its reset has not run yet.
VictoryPhase == victoryTimers # << >>

\* C11: while a victory sequence is pending, no move event changes the
\* player position and no cell activation changes heldSpirit or the override
\* map.
C11_InputFrozenDuringVictory ==
    [][VictoryPhase =>
          /\ MoveStep => playerPos' = playerPos
          /\ \A c \in Cells :
                CellClick(c) => (heldSpirit' = heldSpirit /\ cellMemory' = cellMemory)]_vars

\* With the victory overlay up and its reset pending, the player has moved
\* and holds a spirit picked up after the winning merge.
C11_Witness ==
    /\ VictoryPhase
    /\ winOverlay.display = "block"
    /\ feedback = "Moved to"
    /\ heldSpirit # Null

\* C12: when the reset timer of a victory sequence runs, the override map is
\* empty afterwards, every cell resolves to its procedural value, and
\* heldSpirit is null, whatever was held and overridden before.
C12_ResetClearsMemory ==
    [][ResetTimerFires =>
          /\ cellMemory' = EmptyMap
          /\ DOMAIN cellMemory' = {}
          /\ \A c \in Cells : ValueAt(cellMemory', c) = getSpiritValue(c[1], c[2])
          /\ heldSpirit' = Null]_vars

\* The reset of a victory sequence has run on a session that held a spirit
\* and had overrides: the record saved before the reset still shows both.
C12_Witness ==
    /\ victoryTimers = << >>
    /\ winOverlay = [display |-> "none", html |-> "A new dream begins..."]
    /\ cellMemory = EmptyMap
    /\ heldSpirit = Null
    /\ storage # Null
    /\ storage[1].heldSpirit # Null
    /\ storage[1].cellMemory # << >>

\* C13: when the reset timer of a victory sequence has run, the slot holds no
\* record, so that a page load right after it starts the first-visit session.
C13_ResetClearsSave ==
    [][ResetTimerFires =>
          /\ storage' = Null
          /\ Startup(storage') = Startup(Null)]_vars

\* The reset has run and the slot still holds the record of the winning
\* merge, with its 32 on the merged cell.
C13_Witness ==
    /\ victoryTimers = << >>
    /\ winOverlay = [display |-> "none", html |-> "A new dream begins..."]
    /\ cellMemory = EmptyMap
    /\ storage # Null
    /\ \E c \in Cells :
          ValueAt(Startup(storage).cellMemory, c) = VICTORY_VALUE

\* C14: a new-game request during the victory phase leaves the slot empty,
\* and the page that replaces the old one finds it empty and starts the
\* first-visit session with no victory timer pending on it.
C14_NewGamePreemptsReset ==
    [][/\ (VictoryPhase /\ (NewGame \/ NewGameRequest)) => storage' = Null
       /\ (navigation = "reload during victory" /\ PageCommit) =>
              /\ storage' = Null
              /\ victoryTimers' = << >>
              /\ playerPos' = Startup(Null).playerPos
              /\ heldSpirit' = Null
              /\ cellMemory' = EmptyMap
              /\ movementController' = Startup(Null).movementController
              /\ winOverlay'.display = "none"]_vars

\* A new game has been requested during the victory phase, the reloaded
\* document has not taken over yet, and the old page has written a record
\* into the slot again.
C14_Witness ==
    /\ navigation = "reload during victory"
    /\ storage # Null
    /\ \E c \in Cells : ValueAt(Startup(storage).cellMemory, c) = VICTORY_VALUE

-----------------------------------------------------------------------------
(* Properties of persistence *)

\* The record in the slot decodes to the session (pos, held, mem, controller).
Decodes(raw, pos, held, mem, controller) ==
    /\ raw # Null
    /\ Startup(raw).playerPos = pos
    /\ Startup(raw).heldSpirit = held
    /\ Startup(raw).cellMemory = mem
    /\ Startup(raw).movementController.kind = controller.kind

\* A step of one of the handlers that change the session: an activation, a
\* move, a mode switch, the victory reset, the start position's arrival.
MutatingHandlerStep ==
    \/ \E c \in Cells : CellClick(c)
    \/ MoveStep
    \/ ToggleMovement
    \/ ResetTimerFires
    \/ \E p \in RawPositions : StartPosArrives(p.lat, p.lng)

\* C15: after every handler step that changes the position, heldSpirit, the
\* override map or the movement mode, the record in the slot decodes to the
\* session as it now is.
C15_SnapshotAfterEveryMutation ==
    [][( /\ \/ playerPos' # playerPos
            \/ heldSpirit' # heldSpirit
            \/ cellMemory' # cellMemory
            \/ movementController'.kind # movementController.kind
         /\ MutatingHandlerStep ) =>
          Decodes(storage', playerPos', heldSpirit', cellMemory', movementController')]_vars

\* The mode has been switched to geo and the slot still holds a record that
\* says button.
C15_Witness ==
    /\ feedback = "Switched to GEO movement"
    /\ movementController.kind = "geo"
    /\ storage # Null
    /\ storage[1].movementMode = "button"

\* C16: when the write throws, pickup, merge, drop and move leave the hand,
\* the override map, the position and the victory timers exactly as they
\* leave them when it succeeds, and the slot keeps the record it held.
C16_FailedWriteKeepsMemory ==
    [][quotaExceeded =>
          /\ \A c \in Cells :
                LET v == ValueAt(cellMemory, c)
                    won == 2 * v >= VICTORY_VALUE
                IN  (CellClick(c) /\ Near(c)) =>
                        /\ storage' = storage
                        /\ playerPos' = playerPos
                        /\ (v > 0 /\ heldSpirit = Null) =>
                               /\ heldSpirit' = Some(v)
                               /\ cellMemory' = MapSet(cellMemory, KeyOf(c), [value |-> 0])
                               /\ victoryTimers' = victoryTimers
                        /\ (v > 0 /\ heldSpirit = Some(v)) =>
                               /\ heldSpirit' = Null
                               /\ cellMemory' = MapSet(cellMemory, KeyOf(c), [value |-> 2 * v])
                               /\ victoryTimers' = IF won THEN Append(victoryTimers, "message")
                                                   ELSE victoryTimers
                        /\ (v = 0 /\ heldSpirit # Null) =>
                               /\ heldSpirit' = Null
                               /\ cellMemory' = MapSet(cellMemory, KeyOf(c), [value |-> heldSpirit[1]])
                               /\ victoryTimers' = victoryTimers
          /\ \A k \in Keys :
                LET key == toLowerCase(k)
                    dy == IF key = "w" THEN CELL_SIZE_DEG
                          ELSE IF key = "s" THEN -CELL_SIZE_DEG ELSE 0
                    dx == IF key = "a" THEN -CELL_SIZE_DEG
                          ELSE IF key = "d" THEN CELL_SIZE_DEG ELSE 0
                IN  KeyDown(k) =>
                        /\ playerPos' = centerPlayerOnGrid(playerPos.lat + dy, playerPos.lng + dx)
                        /\ playerPos' # playerPos
          /\ \A p \in RawPositions :
                GeoWatchUpdate(p.lat, p.lng) =>
                    playerPos' = centerPlayerOnGrid(p.lat, p.lng)
          /\ MoveStep =>
                /\ storage' = storage
                /\ heldSpirit' = heldSpirit
                /\ cellMemory' = cellMemory]_vars

\* Every write of the session has thrown: the slot holds the earlier
\* session's record untouched, while the player has moved off the saved
\* position, merged a spirit away and just dropped another.
C16_Witness ==
    /\ quotaExceeded
    /\ storage = EarlierSession
    /\ feedback = "You placed a spirit"
    /\ playerPos # Startup(storage).playerPos
    /\ cellMemory # Startup(storage).cellMemory
    /\ \E c \in Cells : ValueAt(cellMemory, c) = VICTORY_VALUE

\* The script has just run on a page load: nothing has been reported and the
\* start position has not answered.
JustLoaded == feedback = "" /\ startPosPending

\* What loadGame returns on a page load with `raw` in the slot.
LoadSucceeds(raw) ==
    LET first == start(onMove(ButtonMovementController), NoListeners)
    IN  loadGame(raw, WORLD_ORIGIN, Null, EmptyMap, first.controller,
                 first.listeners).loaded

\* C17: after a page load on a slot that is empty or holds a malformed
\* record, loadGame has reported failure and the session is the first-visit
\* session: centered origin, empty hand, no overrides, button mode.
C17_FailedLoadAdoptsNothing ==
    (JustLoaded /\ storage \in {Null} \cup CorruptSessions) =>
        /\ ~LoadSucceeds(storage)
        /\ playerPos = centerPlayerOnGrid(WORLD_ORIGIN.lat, WORLD_ORIGIN.lng)
        /\ heldSpirit = Null
        /\ cellMemory = EmptyMap
        /\ movementController.kind = "button"

\* A page load on a record without cellMemory has failed and has left the
\* record's heldSpirit in the hand.
C17_Witness ==
    /\ JustLoaded
    /\ storage \in CorruptSessions
    /\ ~LoadSucceeds(storage)
    /\ heldSpirit = Some(8)

\* C18: the start position is requested on a page load that finds no save
\* and after a victory reset, and not on a page load that restores a save;
\* its answer does not move a player whom a move event has placed.
C18_StartPositionOnce ==
    [][/\ (Reload \/ NewGame) => (startPosPending' <=> ~LoadSucceeds(storage'))
       /\ ResetTimerFires => startPosPending'
       /\ (feedback = "Moved to" /\ \E p \in RawPositions : StartPosArrives(p.lat, p.lng)) =>
              playerPos' = playerPos]_vars

\* A page load has restored a save and the start position's answer has since
\* moved the player off the saved position.
C18_Witness ==
    /\ feedback = ""
    /\ ~startPosPending
    /\ storage # Null
    /\ LoadSucceeds(storage)
    /\ playerPos # Startup(storage).playerPos

-----------------------------------------------------------------------------
(* Properties of the movement sources *)

\* C19: at most one controller has a live listener or watch, it is the
\* current one, a switch leaves the old kind without any and the new kind
\* with one, and a key press moves the player by at most one cell.
C19_OneControllerActive ==
    /\ [](/\ listeners.button + listeners.geo <= 1
          /\ listeners[movementController.kind] = 1
          /\ movementController.listening
          /\ movementController.callback)
    /\ [][/\ ToggleMovement =>
                /\ movementController'.kind # movementController.kind
                /\ listeners'[movementController.kind] = 0
                /\ listeners'[movementController'.kind] = 1
          /\ (\E k \in Keys : KeyDown(k)) =>
                Abs(playerPos'.lat - playerPos.lat) + Abs(playerPos'.lng - playerPos.lng)
                    <= CELL_SIZE_DEG]_vars

\* A page load has restored a session saved in geo mode: loadGame has
\* stopped the button controller the script started and has started a
\* geolocation controller.
C19_Witness ==
    /\ JustLoaded
    /\ storage # Null
    /\ movementController.kind = "geo"
    /\ listeners = [button |-> 0, geo |-> 1]

\* C20: stopping the current controller a second time changes nothing, a
\* stopped controller has no live listener or watch, stopping a controller
\* that was never started changes nothing, and no key press is handled in
\* geo mode and no position fix in button mode.
C20_StopIdempotentAndFinal ==
    /\ [](LET once == stop(movementController, listeners)
              twice == stop(once.controller, once.listeners)
          IN  /\ twice = once
              /\ ~once.controller.listening
              /\ once.listeners[movementController.kind] = 0
              /\ \A fresh \in { ButtonMovementController, GeoMovementController } :
                    stop(fresh, listeners) = [controller |-> fresh, listeners |-> listeners])
    /\ [][/\ (\E k \in Keys : KeyDown(k)) => movementController.kind = "button"
          /\ (\E p \in RawPositions : GeoWatchUpdate(p.lat, p.lng)) =>
                movementController.kind = "geo"]_vars

\* A geolocation controller that has delivered a move has been stopped by a
\* switch back to button mode, and its watch is gone.
C20_Witness ==
    /\ feedback = "Switched to BUTTON movement"
    /\ movementController.kind = "button"
    /\ listeners.geo = 0
    /\ storage # Null
    /\ storage[1].movementMode = "geo"
    /\ playerPos = Startup(storage).playerPos

-----------------------------------------------------------------------------
(* Properties of the movement variants *)

\* The cell offset the button variant owes a key, rows north and columns
\* east: w, s, d and a in either case, and nothing for any other key.
KeyOffset(k) ==
    IF k \in { "w", "W" } THEN <<1, 0>>
    ELSE IF k \in { "s", "S" } THEN <<-1, 0>>
    ELSE IF k \in { "d", "D" } THEN <<0, 1>>
    ELSE IF k \in { "a", "A" } THEN <<0, -1>>
    ELSE <<0, 0>>

\* The cell the player position lies in.
PlayerCell == <<latToCellIndex(playerPos.lat), lngToCellIndex(playerPos.lng)>>

\* C21: while the button controller is active, a keydown of w, s, a or d in
\* either case emits exactly one position, one cell size away on the key's
\* axis, and the player lands one cell further on that axis and on the same
\* index of the other; a keydown of any other key emits nothing and changes
\* no state.
C21_DiscreteStep ==
    /\ [](movementController.kind = "button" =>
            \A k \in Keys :
                LET emitted == handleKey(k, playerPos, movementController.callback)
                    o == KeyOffset(k)
                IN  IF o = <<0, 0>> THEN emitted = << >>
                    ELSE /\ Len(emitted) = 1
                         /\ emitted[1].lat = playerPos.lat + o[1] * CELL_SIZE_DEG
                         /\ emitted[1].lng = playerPos.lng + o[2] * CELL_SIZE_DEG
                         /\ centerPlayerOnGrid(emitted[1].lat, emitted[1].lng)
                               = getCellCenter(PlayerCell[1] + o[1], PlayerCell[2] + o[2]))
    /\ [][\A k \in Keys :
             KeyDown(k) =>
                 /\ Abs(KeyOffset(k)[1]) + Abs(KeyOffset(k)[2]) = 1
                 /\ latToCellIndex(playerPos'.lat) = PlayerCell[1] + KeyOffset(k)[1]
                 /\ lngToCellIndex(playerPos'.lng) = PlayerCell[2] + KeyOffset(k)[2]
                 /\ heldSpirit' = heldSpirit
                 /\ cellMemory' = cellMemory]_vars

\* A key press has moved the player one cell north of the origin cell and
\* the move has been saved.
C21_Witness ==
    /\ feedback = "Moved to"
    /\ movementController.kind = "button"
    /\ listeners.geo = 0
    /\ PlayerCell = <<OriginI + 1, OriginJ>>
    /\ storage # Null
    /\ storage[1].movementMode = "button"
    /\ storage[1].player = playerPos

\* C22: the geolocation variant, started and with a callback registered,
\* hands every fix of the position feed to the callback, once and with the
\* raw coordinates of the fix, whether or not the fix lies in the player's
\* current cell.
C22_GeoEmitsEveryRawUpdate ==
    (movementController.kind = "geo" /\ movementController.listening
        /\ movementController.callback) =>
        \A p \in RawPositions :
            watchPositionSuccess(p.lat, p.lng, playerPos, movementController.callback)
                = << [lat |-> p.lat, lng |-> p.lng] >>

\* The geolocation variant is the active one, with its callback and a live
\* watch, and the feed can report a fix inside the player's cell that is not
\* the cell's center.
C22_Witness ==
    /\ movementController.kind = "geo"
    /\ movementController.callback
    /\ listeners.geo = 1
    /\ \E p \in RawPositions :
          /\ centerPlayerOnGrid(p.lat, p.lng) = playerPos
          /\ [lat |-> p.lat, lng |-> p.lng] # playerPos

-----------------------------------------------------------------------------
(* Properties of the proximity test *)

\* The cells around the player the proximity test is examined on: every
\* cell up to one cell beyond the interaction radius, as offsets from the
\* player's cell.
Neighbourhood ==
    LET reach == INTERACTION_RADIUS_CELLS + 1
    IN  { <<di, dj>> : di \in (-reach) .. reach, dj \in (-reach) .. reach }

\* The player position and the other points of the player's cell a position
\* can take.
PointsOfPlayerCell ==
    { playerPos } \cup
    { [lat |-> PlayerCell[1] * CELL_SIZE_DEG + q[1],
       lng |-> PlayerCell[2] * CELL_SIZE_DEG + q[2]] : q \in SubCellPoints }

\* C23: isNear is the box test against the south/west corner of the cell:
\* true iff the latitude distance and the longitude distance from the
\* position to the corner are each at most RADIUS cell sizes, the two axes
\* tested independently; a diagonal cell that passes on both axes is near
\* although its corner is further away in a straight line than the radius.
C23_IsNearIsBoxTest ==
    \A p \in PointsOfPlayerCell : \A o \in Neighbourhood :
        LET i == PlayerCell[1] + o[1]
            j == PlayerCell[2] + o[2]
            S == CELL_SIZE_DEG
            RADIUS == INTERACTION_RADIUS_CELLS
            dLat == IF i * S >= p.lat THEN i * S - p.lat ELSE p.lat - i * S
            dLng == IF j * S >= p.lng THEN j * S - p.lng ELSE p.lng - j * S
        IN  isCellNearPlayer(p, i, j) <=> (dLat <= RADIUS * S /\ dLng <= RADIUS * S)

\* The player has moved off the origin cell, and the cell three rows north
\* and three columns east of the player is near although its corner lies
\* further away in a straight line than the radius.
C23_Witness ==
    /\ feedback = "Moved to"
    /\ PlayerCell # <<OriginI, OriginJ>>
    /\ LET i == PlayerCell[1] + 3
           j == PlayerCell[2] + 3
           dLat == i * CELL_SIZE_DEG - playerPos.lat
           dLng == j * CELL_SIZE_DEG - playerPos.lng
           radius == INTERACTION_RADIUS_CELLS * CELL_SIZE_DEG
       IN  /\ isCellNearPlayer(playerPos, i, j)
           /\ dLat * dLat + dLng * dLng > radius * radius

\* C24: with the player on the center of cell (pi, pj), a cell (i, j) is
\* near iff |i - pi| <= RADIUS and |j - pj| <= RADIUS, so the cells k rows
\* south or k columns west of the player are near exactly when the cells k
\* rows north or k columns east are.
C24_NearIsCellRadius ==
    playerPos = getCellCenter(PlayerCell[1], PlayerCell[2]) =>
        \A o \in Neighbourhood :
            isCellNearPlayer(playerPos, PlayerCell[1] + o[1], PlayerCell[2] + o[2])
                <=> ( /\ Abs(o[1]) <= INTERACTION_RADIUS_CELLS
                      /\ Abs(o[2]) <= INTERACTION_RADIUS_CELLS )

\* The player is on the center of a cell, and a click on the cell three rows
\* south and three columns west of it, which holds a spirit, has been
\* rejected as too far.
C24_Witness ==
    /\ playerPos = getCellCenter(PlayerCell[1], PlayerCell[2])
    /\ feedback = "That fragment is too far away."
    /\ <<PlayerCell[1] - 3, PlayerCell[2] - 3>> \in Cells
    /\ getSpiritAt(cellMemory, PlayerCell[1] - 3, PlayerCell[2] - 3) > 0

-----------------------------------------------------------------------------
(* Invariants of the session state *)

\* ((i + 0.5) * S, (j + 0.5) * S) for the integers i, j of the cell that
\* contains pos.
IsCellCenter(pos) ==
    /\ pos.lat = latToCellIndex(pos.lat) * CELL_SIZE_DEG + (CELL_SIZE_DEG \div 2)
    /\ pos.lng = lngToCellIndex(pos.lng) * CELL_SIZE_DEG + (CELL_SIZE_DEG \div 2)

\* C25: once the script has run, the player position is the center of the
\* cell that contains it, in every state, whichever event set it last (a
\* move event of either variant, a start-position arrival, a page load); the
\* saved position is a cell center, and the position a page load takes from
\* the saved record is the saved one.
C25_PlayerOnCellCenter ==
    /\ IsCellCenter(playerPos)
    /\ storage # Null => IsCellCenter(storage[1].player)
    /\ (JustLoaded /\ storage # Null) => playerPos = storage[1].player

\* The geolocation variant has moved the player off the origin cell and the
\* saved record holds that position.
C25_Witness ==
    /\ movementController.kind = "geo"
    /\ feedback = "Moved to"
    /\ PlayerCell # <<OriginI, OriginJ>>
    /\ storage # Null
    /\ storage[1].player = playerPos

\* 1, 2, 4 doubled zero or more times.
IsPowerOfTwo(n) == \E e \in 0 .. 8 : n = 2 ^ e

\* The cells whose value the session can show or change: the cells with a
\* click handler, the cells with an override, and the cells around the player.
CellsInPlay ==
    Cells \cup DOMAIN cellMemory \cup
    { <<PlayerCell[1] + o[1], PlayerCell[2] + o[2]>> : o \in Neighbourhood }

\* C26: in every reachable state every cell's effective value is 0 or a power
\* of two and heldSpirit is null or a power of two.
C26_ValuesArePowersOfTwo ==
    /\ \A c \in CellsInPlay :
          ValueAt(cellMemory, c) = 0 \/ IsPowerOfTwo(ValueAt(cellMemory, c))
    /\ heldSpirit = Null \/ IsPowerOfTwo(heldSpirit[1])

\* Merges have built a 32 out of 4s on one cell while the hand holds a 4, and
\* cells drawing a 2 and a 1 lie around the player.
C26_Witness ==
    /\ heldSpirit = Some(4)
    /\ \E c \in CellsInPlay : ValueAt(cellMemory, c) = VICTORY_VALUE
    /\ \E c \in CellsInPlay : ValueAt(cellMemory, c) = 2
    /\ \E c \in CellsInPlay : ValueAt(cellMemory, c) = 1

-----------------------------------------------------------------------------
(* Algebra of the activations *)

\* C27: the pickup test and the merge test never both pass, on any cell in
\* any reachable state, and an engine that tests merge before pickup takes
\* every activation to the same outcome and the same state as the
\* implemented order.
C27_PickupMergeExclusive ==
    /\ [](\A c \in CellsInPlay :
            ~( /\ PickupGuard(ValueAt(cellMemory, c), heldSpirit)
               /\ MergeGuard(ValueAt(cellMemory, c), heldSpirit) ))
    /\ [][\A c \in Cells :
             CellClick(c) => handleCellClickMergeFirst(c[1], c[2])]_vars

\* A merge has just emptied the hand next to a cell that holds a spirit: the
\* merge test passed on the last activation and the pickup test passes on
\* the next.
C27_Witness ==
    /\ feedback = "Spirits merged!"
    /\ heldSpirit = Null
    /\ \E c \in Cells : Near(c) /\ PickupGuard(ValueAt(cellMemory, c), heldSpirit)
    /\ \E c \in Cells : Near(c) /\ ValueAt(cellMemory, c) = 8

\* C28: a drop of h onto a near empty cell leaves the cell near, holding h
\* and the hand empty; from any such state an empty-handed activation of the
\* cell is a pickup that returns heldSpirit = h and the cell to 0, and an
\* activation holding h is a merge that leaves 2h; a pickup leaves the cell
\* near, empty and its value in the hand, and from any such state a drop on
\* the cell gives it the held value back and empties the hand.
C28_DroppedCellIsOrdinary ==
    [][\A c \in Cells :
          LET v == ValueAt(cellMemory, c)
              placed == MapHas(cellMemory, KeyOf(c)) /\ cellMemory[KeyOf(c)].value > 0
          IN  (CellClick(c) /\ Near(c)) =>
                  \* the drop, and the state it leaves
                  /\ (v = 0 /\ heldSpirit # Null) =>
                         /\ feedback' = "You placed a spirit"
                         /\ MapHas(cellMemory', KeyOf(c))
                         /\ cellMemory'[KeyOf(c)].value = heldSpirit[1]
                         /\ ValueAt(cellMemory', c) = heldSpirit[1]
                         /\ heldSpirit[1] > 0
                         /\ heldSpirit' = Null
                         /\ isCellNearPlayer(playerPos', c[1], c[2])
                  \* a placed spirit is picked up like any other
                  /\ (placed /\ heldSpirit = Null) =>
                         /\ feedback' = "Picked up a spirit"
                         /\ heldSpirit' = Some(v)
                         /\ ValueAt(cellMemory', c) = 0
                         /\ isCellNearPlayer(playerPos', c[1], c[2])
                  \* a placed spirit merges like any other
                  /\ (placed /\ heldSpirit = Some(v)) =>
                         /\ feedback' = "Spirits merged!"
                         /\ ValueAt(cellMemory', c) = 2 * v
                         /\ heldSpirit' = Null
                  \* the pickup, and the state it leaves
                  /\ (v > 0 /\ heldSpirit = Null) =>
                         /\ heldSpirit' = Some(v)
                         /\ ValueAt(cellMemory', c) = 0
                         /\ isCellNearPlayer(playerPos', c[1], c[2])]_vars

\* In a session with two overrides, a 4 picked up from one cell and dropped on
\* a cell that is empty by its draw has been picked up from it again: both
\* cells have the override 0, which only a pickup writes.
C28_Witness ==
    /\ feedback = "Picked up a spirit"
    /\ heldSpirit = Some(4)
    /\ Cardinality(DOMAIN cellMemory) = 2
    /\ \A k \in DOMAIN cellMemory : cellMemory[k].value = 0
    /\ \E c \in Cells :
          /\ Near(c)
          /\ getSpiritValue(c[1], c[2]) = 0
          /\ MapHas(cellMemory, KeyOf(c))

\* A bounded region of cells that holds every cell with a click handler and
\* every cell with an override: the cells with a click handler and the block
\* of nine cells north-east of the origin cell, where the earlier session
\* picked its spirits up.
Region ==
    Cells \cup { <<OriginI + di, OriginJ + dj>> : di \in 0 .. 2, dj \in 0 .. 2 }

\* The same region without the empty cell two columns west of the origin
\* cell, on which spirits are dropped.
RegionWithoutDropCell == Region \ { <<OriginI, OriginJ - 2>> }

\* The cells of a set, listed once each.
RECURSIVE Enumerate(_)
Enumerate(cells) ==
    IF cells = {} THEN << >>
    ELSE LET c == CHOOSE x \in cells : TRUE
         IN  << c >> \o Enumerate(cells \ {c})

RegionCells == Enumerate(Region)

RegionWithoutDropCellCells == Enumerate(RegionWithoutDropCell)

\* The sum of the effective values of the first n cells of a list.
RECURSIVE SumOver(_, _, _)
SumOver(m, cells, n) ==
    IF n = 0 THEN 0
    ELSE ValueAt(m, cells[n]) + SumOver(m, cells, n - 1)

\* The spirit value of a session over a region: its cells plus the hand.
TotalValue(cells, m, held) ==
    SumOver(m, cells, Len(cells)) + (IF held = Null THEN 0 ELSE held[1])

\* A step that is neither the victory reset nor a new game leaves the sum
\* over the listed cells plus the held value as it was.  The sum is a
\* function of the override map and the hand, so a step that changes neither
\* conserves it.
ConservedOver(cells) ==
    <<cellMemory', heldSpirit'>> # <<cellMemory, heldSpirit>> =>
        \/ TotalValue(cells, cellMemory', heldSpirit')
              = TotalValue(cells, cellMemory, heldSpirit)
        \/ ResetTimerFires
        \/ NewGame

\* C29 as stated: over any bounded region of cells, the sum of the cells'
\* effective values plus the held value is unchanged by every pickup, merge,
\* drop, rejection and move event, and by every step that is not a full
\* reset.
C29_ConservedOverAnyRegion ==
    [][/\ ConservedOver(RegionCells)
       /\ ConservedOver(RegionWithoutDropCellCells)]_vars

\* C29, amended: over a bounded region that holds every activated cell, the
\* sum of the cells' effective values plus the held value is unchanged by
\* every pickup, merge, drop, rejection and move event, and by every step
\* that is not a full reset.
C29_ConservedOverEnclosingRegion ==
    /\ [](Cells \cup DOMAIN cellMemory \subseteq Region)
    /\ [][ConservedOver(RegionCells)]_vars

\* A merge has just put an 8 on a cell of the region, the hand having given
\* its 4 to the cell, in a session that has dropped a spirit on the empty
\* cell two columns west of the origin cell.
C29_Witness ==
    /\ feedback = "Spirits merged!"
    /\ heldSpirit = Null
    /\ \E c \in Cells : ValueAt(cellMemory, c) = 8
    /\ MapHas(cellMemory, <<OriginI, OriginJ - 2>>)

\* C30: an activation of a cell, whatever its outcome, leaves the player
\* position and the effective value of every other cell (the cells with a
\* click handler, the cells with an override and the neighbours of the
\* target; any further cell shows its draw before and after) as they were, keeps
\* every other override as it was, and adds or rewrites no override key but
\* the one of the activated cell.
C30_ActivationTouchesOnlyTarget ==
    [][\A c \in Cells :
          CellClick(c) =>
              /\ playerPos' = playerPos
              /\ \A d \in ( Cells \cup DOMAIN cellMemory \cup DOMAIN cellMemory'
                             \cup { <<c[1] + di, c[2] + dj>> :
                                        di \in (-1) .. 1, dj \in (-1) .. 1 } ) \ {c} :
                    ValueAt(cellMemory', d) = ValueAt(cellMemory, d)
              /\ DOMAIN cellMemory \subseteq DOMAIN cellMemory'
              /\ DOMAIN cellMemory' \subseteq DOMAIN cellMemory \cup { KeyOf(c) }
              /\ \A k \in DOMAIN cellMemory \ { KeyOf(c) } :
                    cellMemory'[k] = cellMemory[k]]_vars

\* A drop has just added an override for a cell that is empty by its draw,
\* next to the overrides of at least two other cells, one of which holds a
\* merged spirit.
C30_Witness ==
    /\ feedback = "You placed a spirit"
    /\ Cardinality(DOMAIN cellMemory) >= 3
    /\ \E c \in Cells :
          /\ getSpiritValue(c[1], c[2]) = 0
          /\ MapHas(cellMemory, KeyOf(c))
          /\ cellMemory[KeyOf(c)].value > 0
    /\ \E k \in DOMAIN cellMemory : cellMemory[k].value >= 8

-----------------------------------------------------------------------------
(* The victory sequence runs to its end.  The timers of triggerVictory are  *)
(* tasks of the page's event loop: while the page stays open a timer that   *)
(* is due runs, and no handler of the script blocks.  SpecVictory runs the  *)
(* program on a page that is neither reloaded nor asked for a new game,     *)
(* from the record an earlier session saved (the first-visit session has    *)
(* no two 16s in reach), with the two timers weakly fair.                   *)

InitVictory ==
    /\ Loaded(EarlierSession)
    /\ quotaExceeded = FALSE

NextVictory ==
    \/ \E c \in Cells : CellClick(c)
    \/ \E k \in Keys : KeyDown(k)
    \/ \E p \in RawPositions : GeoWatchUpdate(p.lat, p.lng)
    \/ ToggleMovement
    \/ \E p \in RawPositions : StartPosArrives(p.lat, p.lng)
    \/ StartPosError
    \/ MessageTimerFires
    \/ ResetTimerFires

SpecVictory ==
    /\ InitVictory
    /\ [][NextVictory]_vars
    /\ WF_vars(MessageTimerFires)
    /\ WF_vars(ResetTimerFires)

\* C31: on a page that stays open without a new-game request, a triggered
\* victory sequence shows the win message, changes it before the reset, and
\* the reset eventually runs: the message change of a trigger runs while its
\* reset is pending, the reset runs on a trigger whose message has changed
\* and takes that one trigger off the pending ones, nothing else ends a
\* pending sequence or hides the overlay, and every pending sequence is
\* eventually over.
C31_VictorySequenceCompletes ==
    /\ VictoryPhase ~> ~VictoryPhase
    /\ [][/\ MessageTimerFires =>
                /\ \E k \in 1 .. Len(victoryTimers) :
                      /\ victoryTimers[k] = "message"
                      /\ victoryTimers' = [victoryTimers EXCEPT ![k] = "reset"]
                /\ winOverlay'.display = "block"
          /\ ResetTimerFires =>
                /\ Head(victoryTimers) = "reset"
                /\ winOverlay.html = "A new dream begins..."
                /\ victoryTimers' = Tail(victoryTimers)
                /\ winOverlay'.display = "none"
                /\ dragging'
          /\ ( \/ Len(victoryTimers') < Len(victoryTimers)
               \/ (winOverlay.display = "block" /\ winOverlay'.display = "none") ) =>
                ResetTimerFires]_vars

\* Between the message change and the reset of a victory sequence the page
\* has handled a switch of the movement variant: the new message is up, the
\* reset is pending, and the toggle's feedback shows.
C31_Witness ==
    /\ victoryTimers = << "reset" >>
    /\ winOverlay = [display |-> "block", html |-> "A new dream begins..."]
    /\ feedback = "Switched to GEO movement"
    /\ movementController.kind = "geo"
    /\ ~dragging

====
